---- MODULE Spec2Model ----
(***************************************************************************)
(* Model of pm2534.PM2534, the property-style driver of a Philips PM2534   *)
(* bench meter on a GPIB channel.  Every accessor formats one ASCII        *)
(* command, writes it to the channel and, for a query, reads one response  *)
(* line back and parses it.  The channel (generic488.Device488.write/read) *)
(* is the external collaborator: `sent` is what was written to it,         *)
(* `pending` is what can be read from it.                                  *)
(***************************************************************************)
EXTENDS Integers, Sequences, FiniteSets, TLC

VARIABLES
  sent,      \* commands written to the channel, oldest first
  pending,   \* response lines readable from the channel, oldest first:
             \*   [line |-> the text, q |-> index in `sent` of the query it answers, 0 if none]
  pc,        \* caller -> "idle" | "wait" (inside a getter, between write and read)
  cur,       \* caller -> the getter it is inside: [prop, q, overlap]
  last,      \* the call that returned last: who, what, its channel operations, its outcome
  dev,       \* settings held by the instrument behind the channel: mnemonic -> argument
  written,   \* property -> value of the last write to it that returned normally
  attached,  \* TRUE when the instrument behind the channel answers queries itself
  left       \* calls the callers may still make

vars == <<sent, pending, pc, cur, last, dev, written, attached, left>>

(***************************************************************************)
(* Bounds of the model.                                                    *)
(***************************************************************************)
MaxCalls == 2      \* calls the callers make in one behaviour

(***************************************************************************)
(* Python values and call outcomes.                                        *)
(***************************************************************************)
PyStr(s)      == [t |-> "str", s |-> s]
PyInt(i)      == [t |-> "int", i |-> i]
PyBool(b)     == [t |-> "bool", b |-> b]
PyNone        == [t |-> "None"]
\* a float with a finite decimal expansion: m * 10^e, m not divisible by 10
PyFloat(m, e) == [t |-> "float", m |-> m, e |-> e]

Return(v) == [exc |-> "none", val |-> v]
Raise(e)  == [exc |-> e]

(***************************************************************************)
(* str methods used by the driver.                                         *)
(***************************************************************************)
Char(s, i) == SubSeq(s, i, i)

Whitespace == {" ", "\t", "\n", "\r", "\f"}

RECURSIVE rstrip(_)
rstrip(s) ==
  IF Len(s) > 0 /\ Char(s, Len(s)) \in Whitespace
  THEN rstrip(SubSeq(s, 1, Len(s) - 1))
  ELSE s

RECURSIVE lstrip(_)
lstrip(s) ==
  IF Len(s) > 0 /\ Char(s, 1) \in Whitespace
  THEN lstrip(SubSeq(s, 2, Len(s)))
  ELSE s

strip(s) == lstrip(rstrip(s))

\* s.rsplit(' ', 1): split once at the last single space, if there is one
rsplit1(s) ==
  LET at == {i \in 1..Len(s) : Char(s, i) = " "}
  IN  IF at = {} THEN <<s>>
      ELSE LET i == CHOOSE j \in at : \A k \in at : k <= j
           IN  <<SubSeq(s, 1, i - 1), SubSeq(s, i + 1, Len(s))>>

LowerCase == "abcdefghijklmnopqrstuvwxyz"
UpperCase == "ABCDEFGHIJKLMNOPQRSTUVWXYZ"

upperChar(c) ==
  LET at == {i \in 1..Len(LowerCase) : Char(LowerCase, i) = c}
  IN  IF at = {} THEN c ELSE Char(UpperCase, CHOOSE i \in at : TRUE)

RECURSIVE upper(_)
upper(s) ==
  IF Len(s) = 0 THEN s
  ELSE upperChar(Char(s, 1)) \o upper(SubSeq(s, 2, Len(s)))

(***************************************************************************)
(* int(), float(), truth value and str.format.                             *)
(***************************************************************************)
Digits == "0123456789"

IsDigit(c) == \E i \in 1..Len(Digits) : Char(Digits, i) = c
DigitVal(c) == (CHOOSE i \in 1..Len(Digits) : Char(Digits, i) = c) - 1

AllDigits(s) == Len(s) > 0 /\ \A i \in 1..Len(s) : IsDigit(Char(s, i))

RECURSIVE DecVal(_)
DecVal(s) ==
  IF Len(s) = 0 THEN 0
  ELSE 10 * DecVal(SubSeq(s, 1, Len(s) - 1)) + DigitVal(Char(s, Len(s)))

RECURSIVE Pow10(_)
Pow10(n) == IF n <= 0 THEN 1 ELSE 10 * Pow10(n - 1)

HasSign(s) == Len(s) > 0 /\ Char(s, 1) \in {"+", "-"}
Unsigned(s) == IF HasSign(s) THEN SubSeq(s, 2, Len(s)) ELSE s
SignOf(s) == IF Len(s) > 0 /\ Char(s, 1) = "-" THEN -1 ELSE 1

\* quotient rounded toward zero
Trunc(a, b) == IF a >= 0 THEN a \div b ELSE -((-a) \div b)

RECURSIVE Normal(_, _)
Normal(m, e) ==
  IF m = 0 THEN PyFloat(0, 0)
  ELSE IF m % 10 = 0 THEN Normal(Trunc(m, 10), e + 1)
  ELSE PyFloat(m, e)

\* int(v)
int(v) ==
  CASE v.t = "int"   -> Return(v)
    [] v.t = "bool"  -> Return(PyInt(IF v.b THEN 1 ELSE 0))
    [] v.t = "float" -> Return(PyInt(IF v.e >= 0 THEN v.m * Pow10(v.e)
                                     ELSE Trunc(v.m, Pow10(-v.e))))
    [] v.t = "str"   -> LET s == strip(v.s)
                        IN  IF AllDigits(Unsigned(s))
                            THEN Return(PyInt(SignOf(s) * DecVal(Unsigned(s))))
                            ELSE Raise("ValueError")
    [] OTHER         -> Raise("TypeError")

\* float(s) for a str s: [sign] digits [. digits] [(e|E) [sign] digits]
float(v) ==
  LET s    == strip(v.s)
      u    == Unsigned(s)
      eAt  == {i \in 1..Len(u) : Char(u, i) \in {"e", "E"}}
      ePos == IF eAt = {} THEN Len(u) + 1 ELSE CHOOSE i \in eAt : \A k \in eAt : i <= k
      mant == SubSeq(u, 1, ePos - 1)
      expo == SubSeq(u, ePos + 1, Len(u))
      dAt  == {i \in 1..Len(mant) : Char(mant, i) = "."}
      dPos == IF dAt = {} THEN Len(mant) + 1 ELSE CHOOSE i \in dAt : \A k \in dAt : i <= k
      ip   == SubSeq(mant, 1, dPos - 1)
      fp   == SubSeq(mant, dPos + 1, Len(mant))
      okM  == /\ Len(ip) + Len(fp) > 0
              /\ ip = "" \/ AllDigits(ip)
              /\ fp = "" \/ AllDigits(fp)
      okE  == eAt = {} \/ AllDigits(Unsigned(expo))
      ex   == IF eAt = {} THEN 0 ELSE SignOf(expo) * DecVal(Unsigned(expo))
  IN  IF okM /\ okE
      THEN Return(Normal(SignOf(s) * DecVal(ip \o fp), ex - Len(fp)))
      ELSE Raise("ValueError")

\* the truth value `if v:` tests
Truthy(v) ==
  CASE v.t = "bool"  -> v.b
    [] v.t = "int"   -> v.i # 0
    [] v.t = "float" -> v.m # 0
    [] v.t = "str"   -> v.s # ""
    [] OTHER         -> FALSE

\* '{:d}'.format(i) for an int i
FormatD(i) == ToString(i)

\* '{:1.3E}'.format(v) for a number v: one digit, three decimals, two exponent digits
FormatE(v) ==
  LET m   == IF v.t = "float" THEN v.m ELSE IF v.t = "bool" THEN (IF v.b THEN 1 ELSE 0) ELSE v.i
      e   == IF v.t = "float" THEN v.e ELSE 0
      a   == IF m < 0 THEN -m ELSE m
      k   == Len(ToString(a))
      \* the four leading digits, rounded to nearest (ties to even)
      cut == IF k <= 4 THEN a * Pow10(4 - k)
             ELSE LET p == Pow10(k - 4)
                      h == a \div p
                      r == a % p
                  IN  IF 2 * r > p \/ (2 * r = p /\ h % 2 = 1) THEN h + 1 ELSE h
      d   == IF cut = 10000 THEN 1000 ELSE cut
      x   == IF a = 0 THEN 0 ELSE e + k - 1 + (IF cut = 10000 THEN 1 ELSE 0)
      ds  == IF a = 0 THEN "0000" ELSE ToString(d)
      ax  == IF x < 0 THEN -x ELSE x
  IN  (IF m < 0 THEN "-" ELSE "")
        \o Char(ds, 1) \o "." \o SubSeq(ds, 2, 4)
        \o "E" \o (IF x < 0 THEN "-" ELSE "+")
        \o (IF ax < 10 THEN "0" ELSE "") \o ToString(ax)

(***************************************************************************)
(* The accessors of PM2534.  A setter either raises or writes one command; *)
(* a getter writes its query and decodes the line it reads back.           *)
(***************************************************************************)
Write(cmd) == [exc |-> "none", cmd |-> cmd]

FunctionValues == {"VDC", "VAC", "RTW", "RFW", "IDC", "IAC", "TDC"}
TriggerValues  == {"I", "B", "E", "K"}

\* '{:s}'.format(value): only a str has the 's' presentation type
FormatS(prefix, value) ==
  CASE value.t = "str"  -> Write(prefix \o value.s)
    [] value.t = "None" -> Raise("TypeError")
    [] OTHER            -> Raise("ValueError")

\* self.read().rstrip().rsplit(' ', 1)[1]
read_resp(line) ==
  LET parts == rsplit1(rstrip(line))
  IN  IF Len(parts) < 2 THEN Raise("IndexError") ELSE Return(PyStr(parts[2]))

id_getter(line) == Return(PyStr(rstrip(line)))

function_getter(line) == read_resp(line)

function_setter(value) ==
  IF ~(value.t = "str" /\ value.s \in FunctionValues)
  THEN Raise("ValueError")
  ELSE FormatS("FNC ", value)

range_getter(line) ==
  LET r == read_resp(line)
  IN  IF r.exc # "none" THEN r
      ELSE IF r.val.s = "AUTO" THEN r
      ELSE float(r.val)

\* compares the string as given, without upper()
range_setter_ExactCase(value) ==
  IF value.t = "str"
  THEN IF value.s = "AUTO" THEN Write("RNG AUTO") ELSE Raise("ValueError")
  ELSE IF value.t \in {"int", "float", "bool"} THEN Write("RNG " \o FormatE(value))
  ELSE Raise("TypeError")

range_setter(value) ==
  IF value.t = "str"
  THEN IF upper(value.s) = "AUTO" THEN Write("RNG AUTO") ELSE Raise("ValueError")
  ELSE IF value.t \in {"int", "float", "bool"} THEN Write("RNG " \o FormatE(value))
  ELSE Raise("TypeError")

\* int(self.read_resp())
IntResp(line) ==
  LET r == read_resp(line)
  IN  IF r.exc # "none" THEN r ELSE int(r.val)

\* value = int(value); if not lo <= value <= hi: raise ValueError; write '<mn> {:d}'
IntSetter(mn, lo, hi, value) ==
  LET r == int(value)
  IN  IF r.exc # "none" THEN r
      ELSE IF ~(lo <= r.val.i /\ r.val.i <= hi) THEN Raise("ValueError")
      ELSE Write(mn \o " " \o FormatD(r.val.i))

speed_getter(line) == IntResp(line)
speed_setter(value) == IntSetter("MSP", 1, 4, value)

resolution_getter(line) == IntResp(line)
resolution_setter(value) == IntSetter("RSL", 4, 7, value)

\* tests for the off token instead of the on token
FlagResp_NotOff(line, on) ==
  LET r == read_resp(line)
  IN  IF r.exc # "none" THEN r ELSE Return(PyBool(r.val.s # "OFF"))

\* s = self.read_resp(); return True if s == on else False
FlagResp(line, on) ==
  LET r == read_resp(line)
  IN  IF r.exc # "none" THEN r ELSE Return(PyBool(r.val.s = on))

\* write '<mn> <on>' if bool_value else '<mn> <off>'
FlagSetter(mn, on, off, bool_value) ==
  Write(mn \o " " \o (IF Truthy(bool_value) THEN on ELSE off))

filter_getter(line) == FlagResp(line, "ON")
filter_setter(bool_value) == FlagSetter("FIL", "ON", "OFF", bool_value)

settling_time_getter(line) == FlagResp(line, "ON")
settling_time_setter(bool_value) == FlagSetter("IST", "ON", "OFF", bool_value)

display_getter(line) == FlagResp(line, "ON")
display_setter(bool_value) == FlagSetter("DSP", "ON", "OFF", bool_value)

system21_responses_getter(line) == FlagResp(line, "E")
system21_responses_setter(bool_value) == FlagSetter("AID", "E", "D", bool_value)

calibration_getter(line) == FlagResp(line, "ON")
calibration_setter(bool_value) == FlagSetter("CAL", "ON", "OFF", bool_value)

null_getter(line) == FlagResp(line, "ON")
null_setter(bool_value) == FlagSetter("NUL", "ON", "OFF", bool_value)

trigger_getter(line) == read_resp(line)

trigger_setter(value) ==
  IF ~(value.t = "str" /\ value.s \in TriggerValues)
  THEN Raise("ValueError")
  ELSE FormatS("TRG ", value)

text_getter == Return(PyNone)
text_setter(value) == FormatS("TXT ", value)

\* float(self.read_resp())
reading_getter(line) ==
  LET r == read_resp(line)
  IN  IF r.exc # "none" THEN r ELSE float(r.val)

\* the query each getter writes before it reads
Query(prop) ==
  CASE prop = "id"                 -> "ID?"
    [] prop = "function"           -> "FNC ?"
    [] prop = "range"              -> "RNG ?"
    [] prop = "speed"              -> "MSP ?"
    [] prop = "resolution"         -> "RSL ?"
    [] prop = "filter"             -> "FIL ?"
    [] prop = "settling_time"      -> "IST ?"
    [] prop = "display"            -> "DSP ?"
    [] prop = "system21_responses" -> "AID ?"
    [] prop = "calibration"        -> "CAL ?"
    [] prop = "null"               -> "NUL ?"
    [] prop = "trigger"            -> "TRG ?"

Getter(prop, line) ==
  CASE prop = "id"                 -> id_getter(line)
    [] prop = "function"           -> function_getter(line)
    [] prop = "range"              -> range_getter(line)
    [] prop = "speed"              -> speed_getter(line)
    [] prop = "resolution"         -> resolution_getter(line)
    [] prop = "filter"             -> filter_getter(line)
    [] prop = "settling_time"      -> settling_time_getter(line)
    [] prop = "display"            -> display_getter(line)
    [] prop = "system21_responses" -> system21_responses_getter(line)
    [] prop = "calibration"        -> calibration_getter(line)
    [] prop = "null"               -> null_getter(line)
    [] prop = "trigger"            -> trigger_getter(line)
    [] prop = "reading"            -> reading_getter(line)

Setter(prop, value) ==
  CASE prop = "function"           -> function_setter(value)
    [] prop = "range"              -> range_setter(value)
    [] prop = "speed"              -> speed_setter(value)
    [] prop = "resolution"         -> resolution_setter(value)
    [] prop = "filter"             -> filter_setter(value)
    [] prop = "settling_time"      -> settling_time_setter(value)
    [] prop = "display"            -> display_setter(value)
    [] prop = "system21_responses" -> system21_responses_setter(value)
    [] prop = "calibration"        -> calibration_setter(value)
    [] prop = "null"               -> null_setter(value)
    [] prop = "trigger"            -> trigger_setter(value)
    [] prop = "text"               -> text_setter(value)

\* store_null() writes the null setter's command
Command_NullOn(name) ==
  CASE name = "start"                 -> "X"
    [] name = "enter_diagnostic_mode" -> "TST"
    [] name = "store_null"            -> "NUL ON"

\* start(), enter_diagnostic_mode(), store_null()
Command(name) ==
  CASE name = "start"                 -> "X"
    [] name = "enter_diagnostic_mode" -> "TST"
    [] name = "store_null"            -> "NUL NEW"

QueryProps == {"id", "function", "range", "speed", "resolution", "filter",
               "settling_time", "display", "system21_responses", "calibration",
               "null", "trigger"}
FlagProps  == {"filter", "settling_time", "display", "system21_responses",
               "calibration", "null"}
\* id and reading have no setter, text has no query
SetProps   == (QueryProps \ {"id"}) \cup {"text"}
Commands   == {"start", "enter_diagnostic_mode", "store_null"}

(***************************************************************************)
(* Values the callers pass and lines the channel may hold.                 *)
(***************************************************************************)
FunctionInputs   == {PyStr(f) : f \in FunctionValues}
                      \cup {PyStr("vdc"), PyInt(1)}
TriggerInputs    == {PyStr(t) : t \in TriggerValues} \cup {PyStr("X"), PyStr("i")}
RangeInputs      == {PyStr("AUTO"), PyStr("auto"), PyStr("aUtO"), PyStr("MANUAL"),
                     PyStr("3.0"), PyFloat(3, 0), PyInt(30)}
SpeedInputs      == {PyInt(i) : i \in 0..5}
                      \cup {PyFloat(49, -1), PyStr("fast")}
ResolutionInputs == {PyInt(i) : i \in 3..8}
                      \cup {PyFloat(75, -1), PyStr("high")}
FlagInputs       == {PyBool(TRUE), PyBool(FALSE)}
TextInputs       == {PyStr("HI")}

Inputs(prop) ==
  CASE prop = "function"   -> FunctionInputs
    [] prop = "trigger"    -> TriggerInputs
    [] prop = "range"      -> RangeInputs
    [] prop = "speed"      -> SpeedInputs
    [] prop = "resolution" -> ResolutionInputs
    [] prop \in FlagProps  -> FlagInputs
    [] prop = "text"       -> TextInputs

Lines == {"RNG AUTO", "RNG auto", "RNG 3.000E+00\n", "", "NOVALUE",
          "AID E", "AID D", "FIL ON", "FIL OFF\r\n", "X 1.2345", "MSP 2"}

Callers == {1, 2}

(***************************************************************************)
(* The channel and the instrument behind it.                               *)
(***************************************************************************)
Unset == [t |-> "unset"]

\* what the instrument holds at power-on
PowerOn ==
  [FNC |-> "VDC", RNG |-> "AUTO", MSP |-> "1", RSL |-> "4", FIL |-> "OFF",
   IST |-> "OFF", DSP |-> "ON", AID |-> "D", CAL |-> "OFF", NUL |-> "OFF",
   TRG |-> "I"]

IdLine == "PM2534 V01\n"

Mnemonic(cmd) == SubSeq(cmd, 1, 3)
Argument(cmd) == SubSeq(cmd, 5, Len(cmd))

IsQuery(cmd) ==
  /\ Len(cmd) > 4 /\ Char(cmd, 4) = " " /\ Argument(cmd) = "?"
  /\ Mnemonic(cmd) \in DOMAIN PowerOn

\* a command that sets a value: NUL NEW, X and TST carry none
IsSetting(cmd) ==
  /\ Len(cmd) > 4 /\ Char(cmd, 4) = " " /\ Argument(cmd) # "?"
  /\ Mnemonic(cmd) \in DOMAIN PowerOn
  /\ cmd # "NUL NEW"

\* the instrument stores the argument of each setting command
InstrumentStore(cmd, d) ==
  IF IsSetting(cmd) THEN [d EXCEPT ![Mnemonic(cmd)] = Argument(cmd)] ELSE d

\* and answers each query with one line; n is the query's place in `sent`
InstrumentAnswer(cmd, d, n) ==
  IF cmd = "ID?" THEN <<[line |-> IdLine, q |-> n]>>
  ELSE IF IsQuery(cmd)
       THEN <<[line |-> Mnemonic(cmd) \o " " \o d[Mnemonic(cmd)] \o "\n", q |-> n]>>
       ELSE <<>>

\* self.write(cmd)
ChannelWrite(cmd) ==
  /\ sent' = Append(sent, cmd)
  /\ IF attached
     THEN /\ dev' = InstrumentStore(cmd, dev)
          /\ pending' = pending \o InstrumentAnswer(cmd, dev, Len(sent) + 1)
     ELSE UNCHANGED <<dev, pending>>

\* self.read(): blocks until a line is there
ChannelRead ==
  /\ pending # <<>>
  /\ pending' = Tail(pending)

Send(cmd)  == [d |-> "send", s |-> cmd]
Recv(line) == [d |-> "recv", s |-> line]

\* what a step did on the channel: the commands it added to `sent`, then the
\* line it took from `pending`
ChannelOps ==
  [i \in 1..(Len(sent') - Len(sent)) |-> Send(sent'[Len(sent) + i])]
    \o (IF Len(pending') < Len(pending) THEN <<Recv(Head(pending).line)>> ELSE <<>>)

(***************************************************************************)
(* Calls.                                                                  *)
(***************************************************************************)
NoCall == [prop |-> "", q |-> 0, overlap |-> FALSE, io |-> <<>>]

Done(c, op, prop, arg, io, out, q, rq, overlap) ==
  [caller |-> c, op |-> op, prop |-> prop, arg |-> arg, io |-> io, out |-> out,
   q |-> q, rq |-> rq, overlap |-> overlap]

\* another caller is inside a getter
Others(c) == \E d \in Callers \ {c} : pc[d] = "wait"

\* the getters of the other callers now overlap a call of c
Mark(c) ==
  [d \in Callers |->
     IF d # c /\ pc[d] = "wait" THEN [cur[d] EXCEPT !.overlap = TRUE] ELSE cur[d]]

\* caller c starts a call
Begin(c) ==
  /\ pc[c] = "idle"
  /\ left > 0
  /\ left' = left - 1

\* obj.<prop> = value
Set(c, prop, value) ==
  /\ Begin(c)
  /\ LET r == Setter(prop, value)
     IN  IF r.exc = "none"
         THEN /\ ChannelWrite(r.cmd)
              /\ written' = [written EXCEPT ![prop] = value]
              /\ last' = Done(c, "set", prop, value, ChannelOps,
                              Return(PyNone), 0, 0, Others(c))
         ELSE /\ UNCHANGED <<sent, pending, dev, written>>
              /\ last' = Done(c, "set", prop, value, ChannelOps, r, 0, 0, Others(c))
  /\ cur' = Mark(c)
  /\ UNCHANGED <<pc, attached>>

\* writes the query twice
GetSend_Twice(c, prop) ==
  /\ Begin(c)
  /\ sent' = sent \o <<Query(prop), Query(prop)>>
  /\ pending' = pending \o (IF attached
                             THEN InstrumentAnswer(Query(prop), dev, Len(sent) + 1)
                                    \o InstrumentAnswer(Query(prop), dev, Len(sent) + 2)
                             ELSE <<>>)
  /\ pc' = [pc EXCEPT ![c] = "wait"]
  /\ cur' = [Mark(c) EXCEPT ![c] =
               [prop |-> prop, q |-> Len(sent) + 1, overlap |-> Others(c),
                io |-> ChannelOps]]
  /\ UNCHANGED <<last, dev, written, attached>>

\* obj.<prop>, up to the blocking read: self.write(query)
GetSend(c, prop) ==
  /\ Begin(c)
  /\ ChannelWrite(Query(prop))
  /\ pc' = [pc EXCEPT ![c] = "wait"]
  /\ cur' = [Mark(c) EXCEPT ![c] =
               [prop |-> prop, q |-> Len(sent) + 1, overlap |-> Others(c),
                io |-> ChannelOps]]
  /\ UNCHANGED <<last, written, attached>>

\* obj.<prop>, from the blocking read on: decode the line and return
GetRecv(c) ==
  /\ pc[c] = "wait"
  /\ ChannelRead
  /\ UNCHANGED <<sent, dev, written, attached, left>>
  /\ LET r == Head(pending)
         g == cur[c]
     IN  last' = Done(c, "get", g.prop, PyNone, g.io \o ChannelOps,
                      Getter(g.prop, r.line), g.q, r.q, g.overlap)
  /\ pc' = [pc EXCEPT ![c] = "idle"]
  /\ cur' = [Mark(c) EXCEPT ![c] = NoCall]

\* starts a measurement before it reads
GetReading_Starting(c) ==
  /\ Begin(c)
  /\ pending # <<>>
  /\ sent' = Append(sent, "X")
  /\ pending' = Tail(pending)
  /\ UNCHANGED <<pc, dev, written, attached>>
  /\ LET r == Head(pending)
     IN  last' = Done(c, "get", "reading", PyNone, ChannelOps,
                      Getter("reading", r.line), 0, r.q, Others(c))
  /\ cur' = Mark(c)

\* obj.reading: no query, only the read
GetReading(c) ==
  /\ Begin(c)
  /\ ChannelRead
  /\ UNCHANGED <<sent, pc, dev, written, attached>>
  /\ LET r == Head(pending)
     IN  last' = Done(c, "get", "reading", PyNone, ChannelOps,
                      Getter("reading", r.line), 0, r.q, Others(c))
  /\ cur' = Mark(c)

\* asks the instrument for its text
GetText_Querying(c) ==
  /\ Begin(c)
  /\ ChannelWrite("TXT ?")
  /\ UNCHANGED <<pc, written, attached>>
  /\ last' = Done(c, "get", "text", PyNone, ChannelOps, text_getter, 0, 0, Others(c))
  /\ cur' = Mark(c)

\* obj.text: returns None
GetText(c) ==
  /\ Begin(c)
  /\ UNCHANGED <<sent, pending, pc, dev, written, attached>>
  /\ last' = Done(c, "get", "text", PyNone, ChannelOps, text_getter, 0, 0, Others(c))
  /\ cur' = Mark(c)

\* obj.start(), obj.enter_diagnostic_mode(), obj.store_null()
Call(c, name) ==
  /\ Begin(c)
  /\ ChannelWrite(Command(name))
  /\ last' = Done(c, "cmd", name, PyNone, ChannelOps,
                  Return(PyNone), 0, 0, Others(c))
  /\ cur' = Mark(c)
  /\ UNCHANGED <<pc, written, attached>>

(***************************************************************************)
(* Specifications.                                                         *)
(***************************************************************************)
Start ==
  /\ sent = <<>>
  /\ pc = [c \in Callers |-> "idle"]
  /\ cur = [c \in Callers |-> NoCall]
  /\ last = Done(0, "none", "", PyNone, <<>>, Return(PyNone), 0, 0, FALSE)
  /\ dev = PowerOn
  /\ written = [p \in SetProps |-> Unset]

\* one caller; the channel holds at most one line nobody asked for
Init ==
  /\ Start
  /\ attached = FALSE
  /\ left = MaxCalls
  /\ pending \in {<<>>} \cup {<<[line |-> l, q |-> 0]>> : l \in Lines}

Next ==
  \/ GetText(1)
  \/ GetReading(1)
  \/ \E prop \in QueryProps : GetSend(1, prop)
  \/ GetRecv(1)
  \/ \E prop \in SetProps : \E value \in Inputs(prop) : Set(1, prop, value)
  \/ \E name \in Commands : Call(1, name)

Spec == Init /\ [][Next]_vars

\* one caller; the instrument answers every query and nothing else
InitInstr ==
  /\ Start
  /\ attached = TRUE
  /\ left = MaxCalls
  /\ pending = <<>>

NextInstr ==
  \/ GetText(1)
  \/ \E prop \in QueryProps : GetSend(1, prop)
  \/ GetRecv(1)
  \/ \E prop \in SetProps : \E value \in Inputs(prop) : Set(1, prop, value)
  \/ \E name \in Commands : Call(1, name)

SpecInstr == InitInstr /\ [][NextInstr]_vars

\* two callers reading properties of the same controller
NextConc ==
  \E c \in Callers :
    \/ \E prop \in QueryProps : GetSend(c, prop)
    \/ GetRecv(c)
    \/ GetReading(c)

SpecConc == InitInstr /\ [][NextConc]_vars

(***************************************************************************)
(* Vocabulary of the properties below, stated apart from the driver's own  *)
(* parsing.                                                                *)
(***************************************************************************)
\* the kinds of channel operation a call performed, in order
Kinds(io) == [i \in 1..Len(io) |-> io[i].d]

\* "auto" in any letter case
AutoSpellings ==
  {a \o u \o t \o o : a \in {"a", "A"}, u \in {"u", "U"}, t \in {"t", "T"}, o \in {"o", "O"}}

\* the line without its trailing whitespace
Trimmed(line) ==
  LET keep == {i \in 1..Len(line) : Char(line, i) \notin Whitespace}
  IN  IF keep = {} THEN ""
      ELSE SubSeq(line, 1, CHOOSE i \in keep : \A k \in keep : k <= i)

Separators(line) ==
  {i \in 1..Len(Trimmed(line)) : Char(Trimmed(line), i) \in Whitespace}

\* the line has a value token after a separator
HasToken(line) == Separators(line) # {}

\* the last whitespace-delimited token of the line
LastToken(line) ==
  LET i == CHOOSE j \in Separators(line) : \A k \in Separators(line) : k <= j
  IN  SubSeq(Trimmed(line), i + 1, Len(Trimmed(line)))

\* the last call read property p
Read(p) == last.op = "get" /\ last.prop = p
\* the last call wrote property p
Wrote(p) == last.op = "set" /\ last.prop = p
\* the line the last call received
Received == last.io[Len(last.io)].s

\* the step is a whole call of the given kind (a setter, a command, text or reading)
CallStep(op) == left' = left - 1 /\ pc' = pc /\ last'.op = op

(***************************************************************************)
(* C1                                                                      *)
(***************************************************************************)
\* C1 as stated: every property write performs exactly one send and no
\* receive, and every property read performs exactly one send followed by
\* exactly one receive.
C1_EveryAccessorSendsOnce ==
  /\ last.op = "set" => Kinds(last.io) = <<"send">>
  /\ last.op = "get" => Kinds(last.io) = <<"send", "recv">>

\* C1 amended: a write that returns normally performs exactly one send and no
\* receive, and a write that raises performs no channel operation; a read of a
\* property other than text and reading performs exactly one send, its query,
\* followed by exactly one receive; a read of text performs no channel
\* operation; a read of reading performs exactly one receive and no send.
C1_ChannelOperationsPerAccessor ==
  /\ last.op = "set" =>
       IF last.out.exc = "none" THEN Kinds(last.io) = <<"send">> ELSE last.io = <<>>
  /\ last.op = "get" /\ last.prop \in QueryProps =>
       /\ Kinds(last.io) = <<"send", "recv">>
       /\ last.io[1].s = Query(last.prop)
  /\ Read("text") => last.io = <<>>
  /\ Read("reading") => Kinds(last.io) = <<"recv">>

\* C1 witness: after a command was sent, text was read and nothing more was sent
C1_TextReadWithoutIO ==
  /\ Read("text") /\ last.out = Return(PyNone)
  /\ Len(sent) = 1 /\ pending # <<>>

(***************************************************************************)
(* C2                                                                      *)
(***************************************************************************)
\* the values C2 calls out of domain
OutOfDomain(prop, v) ==
  CASE prop = "function"   -> ~(v.t = "str" /\ v.s \in {"VDC", "VAC", "RTW", "RFW", "IDC", "IAC", "TDC"})
    [] prop = "trigger"    -> ~(v.t = "str" /\ v.s \in {"I", "B", "E", "K"})
    [] prop = "speed"      -> ~(v.t = "int" /\ v.i \in 1..4)
    [] prop = "resolution" -> ~(v.t = "int" /\ v.i \in 4..7)
    [] prop = "range"      -> v.t = "str" /\ v.s \notin AutoSpellings
    [] OTHER               -> FALSE

\* C2: a write of an out-of-domain value to function, trigger, speed,
\* resolution or range fails with InvalidValue (ValueError in the driver) and
\* performs no channel I/O.
C2_OutOfDomainWriteRejected ==
  last.op = "set" /\ OutOfDomain(last.prop, last.arg) =>
    /\ last.out = Raise("ValueError")
    /\ last.io = <<>>

(***************************************************************************)
(* C3                                                                      *)
(***************************************************************************)
\* C3: a query accessor that receives a line with no whitespace-separated
\* value token fails with MalformedResponseError.
C3_MalformedResponseNamed ==
  /\ last.op = "get" /\ last.prop \in QueryProps \cup {"reading"}
  /\ ~HasToken(Received)
  => last.out = Raise("MalformedResponseError")

(***************************************************************************)
(* C4                                                                      *)
(***************************************************************************)
\* what C4 asks of a write of v to an integer property with command mn, set lo..hi
IntWriteAsClaimed(mn, lo, hi) ==
  IF last.arg.t = "int" /\ last.arg.i \in lo..hi
  THEN last.io = <<Send(mn \o " " \o ToString(last.arg.i))>>
  ELSE last.out = Raise("ValueError") /\ last.io = <<>>

\* C4: speed = v sends "MSP <v>" for v in {1,2,3,4} and resolution = v sends
\* "RSL <v>" for v in {4,5,6,7}; any other value, a non-integer such as 4.9
\* included, raises InvalidValue and sends nothing.
C4_OnlyTheAcceptedSetIsSent ==
  /\ Wrote("speed") => IntWriteAsClaimed("MSP", 1, 4)
  /\ Wrote("resolution") => IntWriteAsClaimed("RSL", 4, 7)

(***************************************************************************)
(* C5                                                                      *)
(***************************************************************************)
\* C5: range = "auto" in any letter case sends exactly "RNG AUTO"; a range read
\* sends "RNG ?" and returns the string "AUTO" when the response token is
\* "AUTO", and the token parsed as a number when it is anything else.
C5_RangeAuto ==
  /\ Wrote("range") /\ last.arg.t = "str" /\ last.arg.s \in AutoSpellings =>
       /\ last.out = Return(PyNone)
       /\ last.io = <<Send("RNG AUTO")>>
  /\ Read("range") =>
       /\ last.io[1] = Send("RNG ?")
       /\ Received = "RNG AUTO" => last.out = Return(PyStr("AUTO"))
       /\ Received = "RNG 3.000E+00\n" => last.out = Return(PyFloat(3, 0))
       /\ HasToken(Received) =>
            IF LastToken(Received) = "AUTO"
            THEN last.out = Return(PyStr("AUTO"))
            ELSE /\ last.out = float(PyStr(LastToken(Received)))
                 /\ last.out.exc = "none" => last.out.val.t = "float"

\* C5 witness: range was written as lower-case "auto", then read back as "AUTO"
C5_AutoWrittenThenRead ==
  /\ Read("range") /\ last.out = Return(PyStr("AUTO"))
  /\ sent = <<"RNG AUTO", "RNG ?">>
  /\ written["range"] = PyStr("auto")

(***************************************************************************)
(* C6                                                                      *)
(***************************************************************************)
\* the token that reads as true, and the commands a flag write sends
OnToken(prop) == IF prop = "system21_responses" THEN "E" ELSE "ON"

FlagCommand(prop, b) ==
  CASE prop = "filter"             -> IF b THEN "FIL ON" ELSE "FIL OFF"
    [] prop = "settling_time"      -> IF b THEN "IST ON" ELSE "IST OFF"
    [] prop = "display"            -> IF b THEN "DSP ON" ELSE "DSP OFF"
    [] prop = "system21_responses" -> IF b THEN "AID E" ELSE "AID D"
    [] prop = "calibration"        -> IF b THEN "CAL ON" ELSE "CAL OFF"
    [] prop = "null"               -> IF b THEN "NUL ON" ELSE "NUL OFF"

\* C6: system21_responses reads true exactly when the last token of the
\* response is "E"; filter, settling_time, display, calibration and null read
\* true exactly when it is "ON"; the writes send "AID E"/"AID D" and
\* "<MNEMONIC> ON"/"<MNEMONIC> OFF" for true/false.
C6_FlagCodec ==
  /\ last.op = "get" /\ last.prop \in FlagProps /\ HasToken(Received) =>
       last.out = Return(PyBool(LastToken(Received) = OnToken(last.prop)))
  /\ last.op = "set" /\ last.prop \in FlagProps /\ last.arg.t = "bool" =>
       last.io = <<Send(FlagCommand(last.prop, last.arg.b))>>

\* C6 witness: filter read the line "AID E", whose token is not "ON", as false
C6_OtherTokenReadsFalse ==
  /\ Read("filter") /\ Received = "AID E"
  /\ last.out = Return(PyBool(FALSE))

(***************************************************************************)
(* C7                                                                      *)
(***************************************************************************)
\* C7: reading `reading` sends nothing: the commands sent are unchanged, exactly
\* one line is received, and the last whitespace-delimited token of that line
\* is returned parsed as a number.
C7_ReadingOnlyReceives ==
  [][CallStep("get") /\ last'.prop = "reading" =>
       /\ sent' = sent
       /\ pending # <<>> /\ pending' = Tail(pending)
       /\ last'.io = <<Recv(Head(pending).line)>>
       /\ Head(pending).line = "X 1.2345" => last'.out = Return(PyFloat(12345, -4))
       /\ HasToken(Head(pending).line) =>
            last'.out = float(PyStr(LastToken(Head(pending).line)))]_vars

\* C7 witness: after "X" was sent, reading returned 1.2345 and "X" is still all
\* that was sent
C7_ReadingAfterStart ==
  /\ Read("reading") /\ Received = "X 1.2345"
  /\ last.out = Return(PyFloat(12345, -4))
  /\ sent = <<"X">>

(***************************************************************************)
(* C8                                                                      *)
(***************************************************************************)
\* the step sends exactly cmd and receives nothing
SendsOnly(cmd) ==
  /\ sent' = Append(sent, cmd)
  /\ pending' = pending
  /\ last'.io = <<Send(cmd)>>

\* C8: a write of a valid value v to function or trigger sends exactly "FNC <v>"
\* or "TRG <v>" and reads no response; start(), enter_diagnostic_mode() and
\* store_null() send exactly "X", "TST" and "NUL NEW" and read no response.
C8_SendOnlyCalls ==
  [][/\ CallStep("set") /\ last'.prop = "function" /\ ~OutOfDomain("function", last'.arg)
          => SendsOnly("FNC " \o last'.arg.s)
     /\ CallStep("set") /\ last'.prop = "trigger" /\ ~OutOfDomain("trigger", last'.arg)
          => SendsOnly("TRG " \o last'.arg.s)
     /\ CallStep("cmd") /\ last'.prop = "start" => SendsOnly("X")
     /\ CallStep("cmd") /\ last'.prop = "enter_diagnostic_mode" => SendsOnly("TST")
     /\ CallStep("cmd") /\ last'.prop = "store_null" => SendsOnly("NUL NEW")]_vars

\* C8 witness: store_null() sent "NUL NEW" after "TRG K" and left the line on
\* the channel unread
C8_StoreNullSent ==
  /\ last.op = "cmd" /\ last.prop = "store_null"
  /\ sent = <<"TRG K", "NUL NEW">>
  /\ pending # <<>>

(***************************************************************************)
(* C9                                                                      *)
(***************************************************************************)
\* the last call received a line that answers a query it did not send
Misattributed ==
  /\ last.op = "get" /\ last.io # <<>> /\ last.io[Len(last.io)].d = "recv"
  /\ last.rq # last.q

\* C9: a receive returns the response to the query of the same call whenever no
\* other call was in progress during the call; only a call that overlapped
\* another caller's call can receive a response that is not its own.
C9_MisattributionNeedsOverlap == Misattributed => last.overlap

\* C9 witness: a caller received the response to the query of the other caller,
\* who is still waiting for it
C9_ResponseTakenByOtherCaller ==
  /\ Misattributed /\ last.prop \in QueryProps
  /\ \E d \in Callers \ {last.caller} : pc[d] = "wait" /\ cur[d].q = last.rq

(***************************************************************************)
(* C10                                                                     *)
(***************************************************************************)
RoundTripProps == {"function", "trigger", "speed", "resolution", "filter",
                   "settling_time", "display", "calibration", "null",
                   "system21_responses"}

\* C10: against the instrument that stores each setting and answers each query
\* with it, a read re-queries the device and returns the value most recently
\* written successfully to the property.
C10_ReadReturnsLastWritten ==
  last.op = "get" /\ last.prop \in RoundTripProps =>
    /\ Kinds(last.io) = <<"send", "recv">>
    /\ last.io[1].s = Query(last.prop)
    /\ written[last.prop] # Unset => last.out = Return(written[last.prop])

====
